---- MODULE Spec2Model ----
(***************************************************************************)
(* Model of the AI-Code-Reviewer backend (Express app: /auth/register,     *)
(* /auth/login, /ai/get-review, /me over a users.json file).               *)
(*                                                                         *)
(* Every request is a handler that runs to its next await in one step;     *)
(* the steps of different requests interleave freely, as the event loop    *)
(* interleaves them.  fs.readFile is modelled at the instant the file is   *)
(* read, fs.writeFile at the instant the new document is in place.         *)
(***************************************************************************)
EXTENDS Integers, Sequences, FiniteSets, TLC

\* ------------------------------------------------------------------ bounds
MaxReq == 3        \* requests handled in one run
MaxTime == 8       \* the clock stops here (days)
TickDays == 4      \* the clock advances in steps of this many days
MaxCodeLen == 3    \* tokens in a submitted source text (review heuristic)

Req == 1..MaxReq

\* ------------------------------------------------------- program constants
JWT_SECRET == "dev_secret"
ExpiresIn == 7     \* '7d', in days
BcryptCost == 10
LargeFileLines == 200

\* -------------------------------------------------------------- data types
\* Strings whose characters matter (emails) are sequences of characters.
EmailA == <<"a", "@", "x">>
EmailAUpper == <<"A", "@", "X">>
EmailB == <<"b", "@", "x">>
NoString == <<>>      \* "" or an absent field: falsy in `!email`
Emails == {EmailA, EmailAUpper, EmailB}
NoPassword == ""

\* Request bodies {email, password} sent to /auth/register and /auth/login.
Bodies ==
    {[email |-> e, password |-> "p1"] : e \in Emails}
        \cup {[email |-> EmailA, password |-> "p2"],
              [email |-> NoString, password |-> "p1"],
              [email |-> EmailA, password |-> NoPassword]}

LowerChar(c) ==
    CASE c = "A" -> "a"
      [] c = "B" -> "b"
      [] c = "X" -> "x"
      [] OTHER -> c

toLowerCase(s) == [i \in DOMAIN s |-> LowerChar(s[i])]

\* bcrypt.hash(password, 10): a salted digest; the salt is fresh per call.
bcryptHash(password, salt) ==
    [cost |-> BcryptCost, salt |-> salt, digest |-> <<salt, password>>]

bcryptCompare(password, hash) == hash.digest = <<hash.salt, password>>

NoHash == [cost |-> 0, salt |-> 0, digest |-> <<0, "">>]
NoUser == [id |-> 0, email |-> NoString, passwordHash |-> NoHash, createdAt |-> 0]

\* A token: the claim {id, email, iat, exp} and the key that signed it.
NoToken == [wellFormed |-> FALSE, key |-> "none", id |-> 0, email |-> NoString,
            iat |-> 0, exp |-> 0]
GarbageToken == [wellFormed |-> FALSE, key |-> "garbage", id |-> 0,
                 email |-> NoString, iat |-> 0, exp |-> 0]

jwtSign(payload, key, expiresIn, t) ==
    [wellFormed |-> TRUE, key |-> key, id |-> payload.id, email |-> payload.email,
     iat |-> t, exp |-> t + expiresIn]

\* A verification that checks the signature and forgets the expiry.
jwtVerifyIgnoringExpiry(token, key, t) ==
    /\ token.wellFormed
    /\ token.key = key

\* jwt.verify: throws on a malformed token, a wrong signature, or exp reached.
jwtVerifyOk(token, key, t) ==
    /\ token.wellFormed
    /\ token.key = key
    /\ t < token.exp

generateToken(user, t) == jwtSign([id |-> user.id, email |-> user.email],
                                  JWT_SECRET, ExpiresIn, t)


\* Public views returned in responses.
NoPublicUser == [id |-> 0, email |-> NoString, createdAt |-> -1]
publicUser(u) == [id |-> u.id, email |-> u.email, createdAt |-> -1]
publicUserWithDate(u) == [id |-> u.id, email |-> u.email, createdAt |-> u.createdAt]

NoPayload == [id |-> 0, email |-> NoString]

\* Authorization header: absent, or the parts auth.split(' ') yields.
\* parts[1] is the scheme word, the following parts are tokens.
NoHeader == [present |-> FALSE, parts |-> <<>>]
Schemes == {"Bearer", "Basic"}

\* Submitted source text: a sequence of text tokens.  NL199 stands for a run
\* of 199 newline characters.
NL199 == "\n*199"
SampleCodes == {<<"a", "\n", "b">>}

\* ------------------------------------------------------------------- state
VARIABLES
    usersFile,   \* data/users.json: [readable, users]
    now,         \* wall clock, in days
    pc,          \* per request: where its handler is suspended
    route,       \* per request: which route it hit
    email,       \* per request: req.body.email
    password,    \* per request: req.body.password
    code,        \* per request: req.body.code
    header,      \* per request: req.headers.authorization
    reqUser,     \* per request: req.user, set by authMiddleware
    users,       \* per request: the handler's local `users` array
    user,        \* per request: the handler's local user (newUser / user)
    bodyRan,     \* per request: the route callback was entered
    resp,        \* per request: the response sent, status 0 while none
    prior,       \* per request: the requests already answered when it arrived
    text,        \* review heuristic alone: the source text
    suggestions  \* review heuristic alone: the suggestions computed, or <<>>

vars == <<usersFile, now, pc, route, email, password, code, header, reqUser,
          users, user, bodyRan, resp, prior, text, suggestions>>

reviewVars == <<text, suggestions>>

NoResp == [status |-> 0, json |-> FALSE, error |-> "", token |-> NoToken,
           user |-> NoPublicUser, review |-> <<>>]

\* res.status(s).json({ error })
jsonError(s, msg) == [status |-> s, json |-> TRUE, error |-> msg, token |-> NoToken,
                      user |-> NoPublicUser, review |-> <<>>]

\* res.json({ token, user })
jsonSession(tok, u) == [status |-> 200, json |-> TRUE, error |-> "", token |-> tok,
                        user |-> u, review |-> <<>>]

\* res.json({ user })
jsonUser(u) == [status |-> 200, json |-> TRUE, error |-> "", token |-> NoToken,
                user |-> u, review |-> <<>>]

\* res.json({ review })
jsonReview(sug) == [status |-> 200, json |-> TRUE, error |-> "", token |-> NoToken,
                    user |-> NoPublicUser, review |-> sug]

\* Express's default error handler (express 5 forwards a rejected handler to it):
\* 500 with an HTML body.
htmlError == [status |-> 500, json |-> FALSE, error |-> "", token |-> NoToken,
              user |-> NoPublicUser, review |-> <<>>]

Answered == {r \in Req : resp[r].status # 0}

\* ensureUsersFile: the file holds [] after a first start; a failure to create
\* it is caught and logged, and the server starts without the file.
EmptyFile == [readable |-> TRUE, users |-> <<>>]
MissingFile == [readable |-> FALSE, users |-> <<>>]

ensureUsersFile == {EmptyFile, MissingFile}

Init ==
    /\ usersFile \in ensureUsersFile
    /\ now = 0
    /\ pc = [r \in Req |-> "idle"]
    /\ route = [r \in Req |-> "none"]
    /\ email = [r \in Req |-> NoString]
    /\ password = [r \in Req |-> NoPassword]
    /\ code = [r \in Req |-> NoString]
    /\ header = [r \in Req |-> NoHeader]
    /\ reqUser = [r \in Req |-> NoPayload]
    /\ users = [r \in Req |-> <<>>]
    /\ user = [r \in Req |-> NoUser]
    /\ bodyRan = [r \in Req |-> FALSE]
    /\ resp = [r \in Req |-> NoResp]
    /\ prior = [r \in Req |-> {}]
    /\ text = <<>>
    /\ suggestions = <<>>

\* ---------------------------------------------------------------- helpers
\* users.find(pred) over a sequence: first match or none.
FirstIndex(seq, P(_)) ==
    IF \E i \in DOMAIN seq : P(seq[i])
    THEN CHOOSE i \in DOMAIN seq : P(seq[i]) /\ \A j \in 1..(i-1) : ~P(seq[j])
    ELSE 0

\* A lookup that compares emails as they are written.
findUserByEmailCaseSensitive(doc, e) ==
    IF \E i \in DOMAIN doc : doc[i].email = e
    THEN doc[CHOOSE i \in DOMAIN doc :
                 doc[i].email = e /\ \A j \in 1..(i-1) : doc[j].email # e]
    ELSE NoUser

\* findUserByEmail on the document just read.
findUserByEmail(doc, e) ==
    LET match(u) == toLowerCase(u.email) = toLowerCase(e)
        i == FirstIndex(doc, match)
    IN IF i = 0 THEN NoUser ELSE doc[i]

findUserById(doc, id) ==
    LET match(u) == u.id = id
        i == FirstIndex(doc, match)
    IN IF i = 0 THEN NoUser ELSE doc[i]

\* uuidv4(): unique per call; a request calls it at most once.
uuidv4(r) == r

\* authMiddleware: what it answers, "next" when it lets the request through.
authMiddleware(h, t) ==
    IF ~h.present THEN "missing authorization"
    ELSE IF Len(h.parts) # 2 THEN "invalid authorization header"
    ELSE IF ~jwtVerifyOk(h.parts[2], JWT_SECRET, t) THEN "invalid token"
    ELSE "next"

\* The review heuristic -----------------------------------------------------
Newlines(tok) == IF tok = "\n" THEN 1 ELSE IF tok = NL199 THEN 199 ELSE 0

RECURSIVE CountNewlines(_)
CountNewlines(c) ==
    IF c = <<>> THEN 0 ELSE Newlines(Head(c)) + CountNewlines(Tail(c))

\* code.split('\n').length
lines(c) == CountNewlines(c) + 1

\* /console\\.log|print\\(|System\\.out\\.println/ as written in the source:
\* `\\` is a literal backslash and `.` any character, so the first alternative
\* needs "console", a backslash, one character, "log"; the other alternatives
\* need a backslash after "print" and after "System" (and the `(` after
\* `print\\` opens a group the pattern never closes).  Of the text tokens of
\* the model only "console\\.log" holds a backslash after one of these words.
hasConsole(c) == \E i \in DOMAIN c : c[i] = "console\\.log"

\* /\\s+$/ as written in the source: a literal backslash followed by one or
\* more letters s at the end of the text.
RECURSIVE EndsBackslashS(_, _)
EndsBackslashS(c, seenS) ==
    IF c = <<>> THEN FALSE
    ELSE LET last == c[Len(c)]
             rest == SubSeq(c, 1, Len(c) - 1)
         IN IF last = "s" THEN EndsBackslashS(rest, TRUE)
            ELSE last = "\\" /\ seenS

trailingWhitespace(c) == EndsBackslashS(c, FALSE)

LargeMsg == "File is large (>200 lines). Consider splitting into modules."
DebugMsg == "Found debug print statements. Remove or guard them in production."
TrailingMsg == "There appear to be trailing spaces on the last line."
NoIssueMsg == "No obvious issues detected by the heuristic review."

review(c) ==
    LET s1 == IF lines(c) > LargeFileLines THEN <<LargeMsg>> ELSE <<>>
        s2 == IF hasConsole(c) THEN Append(s1, DebugMsg) ELSE s1
        s3 == IF trailingWhitespace(c) THEN Append(s2, TrailingMsg) ELSE s2
    IN IF Len(s3) = 0 THEN <<NoIssueMsg>> ELSE s3


\* ----------------------------------------------------------------- actions
\* Requests arrive in the order of their numbers.
Arrives(r) == pc[r] = "idle" /\ \A q \in 1..(r-1) : pc[q] # "idle"

ForgedToken == jwtSign([id |-> 1, email |-> EmailA], "attacker_key", ExpiresIn, now)

\* Tokens a client can present: the ones responses handed out, a token signed
\* with another key, and a string that is no token.
IssuedTokens == {resp[q].token : q \in {x \in Req : resp[x].token # NoToken}}

Headers ==
    {NoHeader, [present |-> TRUE, parts |-> <<"Bearer">>]}
        \cup {[present |-> TRUE, parts |-> <<s, t>>] :
                  s \in Schemes, t \in IssuedTokens}
        \cup {[present |-> TRUE, parts |-> <<"Bearer", t>>] :
                  t \in {ForgedToken, GarbageToken}}
        \cup {[present |-> TRUE, parts |-> <<"Bearer", t, GarbageToken>>] :
                  t \in IssuedTokens}

\* The handler of r throws after an await: the promise express was handed is
\* rejected.  Express 4 ignores it (no response is ever sent); express 5 passes
\* it to the default error handler (500, HTML body).
Rejected(r) ==
    /\ pc' = [pc EXCEPT ![r] = "rejected"]
    /\ \E out \in {NoResp, htmlError} : resp' = [resp EXCEPT ![r] = out]
    /\ users' = [users EXCEPT ![r] = <<>>]
    /\ user' = [user EXCEPT ![r] = NoUser]

Respond(r, out) ==
    /\ pc' = [pc EXCEPT ![r] = "done"]
    /\ resp' = [resp EXCEPT ![r] = out]
    /\ users' = [users EXCEPT ![r] = <<>>]
    /\ user' = [user EXCEPT ![r] = NoUser]

\* POST /auth/register, up to the await on findUserByEmail.
StartRegister(r) ==
    /\ Arrives(r)
    /\ \E b \in Bodies :
        /\ route' = [route EXCEPT ![r] = "register"]
        /\ email' = [email EXCEPT ![r] = b.email]
        /\ password' = [password EXCEPT ![r] = b.password]
        /\ prior' = [prior EXCEPT ![r] = Answered]
        /\ bodyRan' = [bodyRan EXCEPT ![r] = TRUE]
        /\ IF b.email = NoString \/ b.password = NoPassword
           THEN Respond(r, jsonError(400, "email and password required"))
           ELSE /\ pc' = [pc EXCEPT ![r] = "reg_find"]
                /\ UNCHANGED <<resp, users, user>>
    /\ UNCHANGED <<usersFile, now, code, header, reqUser, reviewVars>>

\* findUserByEmail resolves: 409 when it found a user, else bcrypt.hash starts.
RegisterFind(r) ==
    /\ pc[r] = "reg_find"
    /\ IF ~usersFile.readable
       THEN Rejected(r)
       ELSE IF findUserByEmail(usersFile.users, email[r]) # NoUser
            THEN Respond(r, jsonError(409, "user already exists"))
            ELSE /\ pc' = [pc EXCEPT ![r] = "reg_hash"]
                 /\ UNCHANGED <<resp, users, user>>
    /\ UNCHANGED <<usersFile, now, route, email, password, code, header, reqUser,
                   bodyRan, prior, reviewVars>>

\* bcrypt.hash resolves and readUsers reads the file: newUser is pushed on the
\* array just read and writeUsers starts.
RegisterRead(r) ==
    /\ pc[r] = "reg_hash"
    /\ IF ~usersFile.readable
       THEN Rejected(r)
       ELSE LET hashed == bcryptHash(password[r], r)
                newUser == [id |-> uuidv4(r), email |-> email[r],
                            passwordHash |-> hashed, createdAt |-> now]
            IN /\ users' = [users EXCEPT ![r] = Append(usersFile.users, newUser)]
               /\ user' = [user EXCEPT ![r] = newUser]
               /\ pc' = [pc EXCEPT ![r] = "reg_write"]
               /\ UNCHANGED resp
    /\ UNCHANGED <<usersFile, now, route, email, password, code, header, reqUser,
                   bodyRan, prior, reviewVars>>

\* writeUsers(users) completes: the file is the handler's array; the token is
\* issued and the response sent.
RegisterWrite(r) ==
    /\ pc[r] = "reg_write"
    /\ usersFile' = [readable |-> TRUE, users |-> users[r]]
    /\ Respond(r, jsonSession(generateToken(user[r], now), publicUser(user[r])))
    /\ UNCHANGED <<now, route, email, password, code, header, reqUser,
                   bodyRan, prior, reviewVars>>

\* POST /auth/login, up to the await on findUserByEmail.
StartLogin(r) ==
    /\ Arrives(r)
    /\ \E b \in Bodies :
        /\ route' = [route EXCEPT ![r] = "login"]
        /\ email' = [email EXCEPT ![r] = b.email]
        /\ password' = [password EXCEPT ![r] = b.password]
        /\ prior' = [prior EXCEPT ![r] = Answered]
        /\ bodyRan' = [bodyRan EXCEPT ![r] = TRUE]
        /\ IF b.email = NoString \/ b.password = NoPassword
           THEN Respond(r, jsonError(400, "email and password required"))
           ELSE /\ pc' = [pc EXCEPT ![r] = "login_find"]
                /\ UNCHANGED <<resp, users, user>>
    /\ UNCHANGED <<usersFile, now, code, header, reqUser, reviewVars>>

\* findUserByEmail resolves: 401 when there is no such user, else bcrypt.compare.
LoginFind(r) ==
    /\ pc[r] = "login_find"
    /\ IF ~usersFile.readable
       THEN Rejected(r)
       ELSE LET found == findUserByEmail(usersFile.users, email[r])
            IN IF found = NoUser
               THEN Respond(r, jsonError(401, "invalid credentials"))
               ELSE /\ user' = [user EXCEPT ![r] = found]
                    /\ pc' = [pc EXCEPT ![r] = "login_compare"]
                    /\ UNCHANGED <<resp, users>>
    /\ UNCHANGED <<usersFile, now, route, email, password, code, header, reqUser,
                   bodyRan, prior, reviewVars>>

\* bcrypt.compare resolves: 401 on a mismatch, else the token is issued.
LoginCompare(r) ==
    /\ pc[r] = "login_compare"
    /\ IF ~bcryptCompare(password[r], user[r].passwordHash)
       THEN Respond(r, jsonError(401, "invalid credentials"))
       ELSE Respond(r, jsonSession(generateToken(user[r], now), publicUser(user[r])))
    /\ UNCHANGED <<usersFile, now, route, email, password, code, header, reqUser,
                   bodyRan, prior, reviewVars>>

\* POST /ai/get-review: authMiddleware, then the whole route body (no await).
GetReview(r) ==
    /\ Arrives(r)
    /\ \E h \in Headers, c \in SampleCodes \cup {NoString} :
        LET gate == authMiddleware(h, now)
        IN /\ route' = [route EXCEPT ![r] = "review"]
           /\ header' = [header EXCEPT ![r] = h]
           /\ code' = [code EXCEPT ![r] = c]
           /\ prior' = [prior EXCEPT ![r] = Answered]
           /\ IF gate # "next"
              THEN /\ Respond(r, jsonError(401, gate))
                   /\ UNCHANGED <<reqUser, bodyRan>>
              ELSE /\ reqUser' = [reqUser EXCEPT ![r] =
                                     [id |-> h.parts[2].id, email |-> h.parts[2].email]]
                   /\ bodyRan' = [bodyRan EXCEPT ![r] = TRUE]
                   /\ IF c = NoString
                      THEN Respond(r, jsonError(400, "code required"))
                      ELSE Respond(r, jsonReview(review(c)))
    /\ UNCHANGED <<usersFile, now, email, password, reviewVars>>

\* GET /me: authMiddleware, then the route body up to the await on readUsers.
StartMe(r) ==
    /\ Arrives(r)
    /\ \E h \in Headers :
        LET gate == authMiddleware(h, now)
        IN /\ route' = [route EXCEPT ![r] = "me"]
           /\ header' = [header EXCEPT ![r] = h]
           /\ prior' = [prior EXCEPT ![r] = Answered]
           /\ IF gate # "next"
              THEN /\ Respond(r, jsonError(401, gate))
                   /\ UNCHANGED <<reqUser, bodyRan>>
              ELSE /\ reqUser' = [reqUser EXCEPT ![r] =
                                     [id |-> h.parts[2].id, email |-> h.parts[2].email]]
                   /\ bodyRan' = [bodyRan EXCEPT ![r] = TRUE]
                   /\ pc' = [pc EXCEPT ![r] = "me_read"]
                   /\ UNCHANGED <<resp, users, user>>
    /\ UNCHANGED <<usersFile, now, email, password, code, reviewVars>>

\* readUsers resolves: 404 when no user has req.user.id, else the user.
MeRead(r) ==
    /\ pc[r] = "me_read"
    /\ IF ~usersFile.readable
       THEN Rejected(r)
       ELSE LET u == findUserById(usersFile.users, reqUser[r].id)
            IN IF u = NoUser
               THEN Respond(r, jsonError(404, "not found"))
               ELSE Respond(r, jsonUser(publicUserWithDate(u)))
    /\ UNCHANGED <<usersFile, now, route, email, password, code, header, reqUser,
                   bodyRan, prior, reviewVars>>

\* Time passes.
Tick ==
    /\ now + TickDays <= MaxTime
    /\ now' = now + TickDays
    /\ UNCHANGED <<usersFile, pc, route, email, password, code, header, reqUser,
                   users, user, bodyRan, resp, prior, reviewVars>>

Next ==
    \/ \E r \in Req : StartRegister(r)
    \/ \E r \in Req : RegisterFind(r)
    \/ \E r \in Req : RegisterRead(r)
    \/ \E r \in Req : RegisterWrite(r)
    \/ \E r \in Req : StartLogin(r)
    \/ \E r \in Req : LoginFind(r)
    \/ \E r \in Req : LoginCompare(r)
    \/ \E r \in Req : GetReview(r)
    \/ \E r \in Req : StartMe(r)
    \/ \E r \in Req : MeRead(r)
    \/ Tick

Spec == Init /\ [][Next]_vars


\* ------------------------------------------- the review heuristic on its own
CodeTokens == {"a", " ", "\n", "\\", "s", "console.log(", "console\\.log", NL199}

RECURSIVE TextsOfLen(_)
TextsOfLen(n) ==
    IF n = 0 THEN {<<>>}
    ELSE {Append(t, k) : t \in TextsOfLen(n - 1), k \in CodeTokens}

Texts == UNION {TextsOfLen(n) : n \in 1..MaxCodeLen}

InitReview ==
    /\ usersFile = EmptyFile
    /\ now = 0
    /\ pc = [r \in Req |-> "idle"]
    /\ route = [r \in Req |-> "none"]
    /\ email = [r \in Req |-> NoString]
    /\ password = [r \in Req |-> NoPassword]
    /\ code = [r \in Req |-> NoString]
    /\ header = [r \in Req |-> NoHeader]
    /\ reqUser = [r \in Req |-> NoPayload]
    /\ users = [r \in Req |-> <<>>]
    /\ user = [r \in Req |-> NoUser]
    /\ bodyRan = [r \in Req |-> FALSE]
    /\ resp = [r \in Req |-> NoResp]
    /\ prior = [r \in Req |-> {}]
    /\ text \in Texts
    /\ suggestions = <<>>

\* Lines 106-113 of the route body applied to `text`.
RunReview ==
    /\ suggestions = <<>>
    /\ suggestions' = review(text)
    /\ UNCHANGED <<usersFile, now, pc, route, email, password, code, header,
                   reqUser, users, user, bodyRan, resp, prior, text>>

NextReview == RunReview

SpecReview == InitReview /\ [][NextReview]_vars

\* ================================================================== claims
SameEmail(e1, e2) == toLowerCase(e1) = toLowerCase(e2)

Finished(r) == pc[r] \in {"done", "rejected"}

\* C1: no two stored users have emails that are equal ignoring case.
C1_UniqueEmails ==
    \A i, j \in DOMAIN usersFile.users :
        i # j => ~SameEmail(usersFile.users[i].email, usersFile.users[j].email)

\* C2: a user record that a register request persisted (and answered 200 for)
\* is in the persisted collection in every later state.
C2_UsersNeverLost ==
    \A r \in Req :
        (route[r] = "register" /\ resp[r].status = 200) =>
            \E i \in DOMAIN usersFile.users :
                /\ usersFile.users[i].id = resp[r].user.id
                /\ usersFile.users[i].email = resp[r].user.email
                /\ usersFile.users[i].passwordHash = bcryptHash(password[r], r)

\* C3: with the user file readable, a register request with both fields whose
\* email was not found gets 200 with a token and user, and every login that
\* arrives after that answer with the same password and the same email in any
\* case variant gets 200 with the same user id and email.
C3_RegisterThenLogin ==
    usersFile.readable =>
        \A r \in Req :
            (route[r] = "register" /\ Finished(r) /\ email[r] # NoString
                /\ password[r] # NoPassword /\ resp[r].status # 409) =>
                /\ resp[r].status = 200
                /\ resp[r].token # NoToken
                /\ resp[r].user.email = email[r]
                /\ \A l \in Req :
                    (route[l] = "login" /\ Finished(l) /\ r \in prior[l]
                        /\ SameEmail(email[l], email[r])
                        /\ password[l] = password[r]) =>
                        /\ resp[l].status = 200
                        /\ resp[l].user.id = resp[r].user.id
                        /\ resp[l].user.email = resp[r].user.email

C5_TokenResolvesToIssuedUser ==
    \A m \in Req :
        (route[m] = "me" /\ Finished(m) /\ Len(header[m].parts) = 2
            /\ header[m].parts[1] = "Bearer" /\ bodyRan[m]) =>
            \A q \in Req :
                (resp[q].token = header[m].parts[2]) =>
                    /\ resp[m].status = 200
                    /\ resp[m].user.id = resp[q].user.id
                    /\ resp[m].user.email = resp[q].user.email

\* The claim's notion of a bad token at time t: malformed, not signed with the
\* server's secret, or more than 7 days past its issuance.
BadToken(tok, t) ==
    \/ ~tok.wellFormed
    \/ tok.key # JWT_SECRET
    \/ t - tok.iat > ExpiresIn

\* C6: on both protected routes a request that arrives with an expired, badly
\* signed or malformed token is answered 401 and its route body never runs.
C6_BadTokenRejected ==
    [][\A r \in Req :
        (pc[r] = "idle" /\ route'[r] \in {"review", "me"}
            /\ Len(header'[r].parts) >= 2
            /\ BadToken(header'[r].parts[2], now)) =>
            /\ pc'[r] = "done"
            /\ resp'[r].status = 401
            /\ resp'[r].json
            /\ resp'[r].error # ""
            /\ ~bodyRan'[r]
            /\ reqUser'[r] = NoPayload
            /\ resp'[r].review = <<>>
            /\ resp'[r].user = NoPublicUser
      ]_vars

\* C6 witness: the review route has rejected a two-part Bearer header whose
\* token the server issued itself more than 7 days before, and /me a two-part
\* Bearer header whose token is signed with another key or is no token.
C6_Witness ==
    /\ \E r \in Req :
        /\ route[r] = "review"
        /\ Len(header[r].parts) = 2
        /\ header[r].parts[1] = "Bearer"
        /\ header[r].parts[2] \in IssuedTokens
        /\ now - header[r].parts[2].iat > ExpiresIn
        /\ resp[r].status = 401
        /\ ~bodyRan[r]
    /\ \E r \in Req :
        /\ route[r] = "me"
        /\ Len(header[r].parts) = 2
        /\ header[r].parts[1] = "Bearer"
        /\ header[r].parts[2].key # JWT_SECRET
        /\ resp[r].status = 401
        /\ ~bodyRan[r]

\* C7: a protected route body runs only for a request whose Authorization
\* header is the scheme word Bearer followed by one token.
C7_OnlyBearerAdmitted ==
    \A r \in Req :
        (route[r] \in {"review", "me"} /\ bodyRan[r]) =>
            /\ header[r].present
            /\ Len(header[r].parts) = 2
            /\ header[r].parts[1] = "Bearer"

\* C8: a step of a request leaves the stored collection as it is, unless it is
\* a register request answering 200, and then it appends exactly one user to
\* the collection as it was.
C8_AllOrNothing ==
    [][\A r \in Req :
        (pc'[r] # pc[r]) =>
            \/ usersFile' = usersFile
            \/ /\ route'[r] = "register"
               /\ resp'[r].status = 200
               /\ Len(usersFile'.users) = Len(usersFile.users) + 1
               /\ SubSeq(usersFile'.users, 1, Len(usersFile.users)) = usersFile.users
      ]_vars

\* C9: every request whose handler has finished was sent a JSON response, and
\* a failure carries a JSON body {error: string}.
C9_EveryFailureIsJsonError ==
    \A r \in Req :
        Finished(r) =>
            /\ resp[r].status # 0
            /\ resp[r].json
            /\ (resp[r].status # 200 => resp[r].error # "")

\* The claim's terms for C10.
IsWhitespace(tok) == tok \in {" ", "\n", NL199}
ContainsDebugPrint(c) == \E i \in DOMAIN c : c[i] = "console.log("
EndsInWhitespace(c) == c # <<>> /\ IsWhitespace(c[Len(c)])

ExpectedSuggestions(c) ==
    LET s1 == IF lines(c) > 200 THEN <<LargeMsg>> ELSE <<>>
        s2 == IF ContainsDebugPrint(c) THEN Append(s1, DebugMsg) ELSE s1
        s3 == IF EndsInWhitespace(c) THEN Append(s2, TrailingMsg) ELSE s2
    IN IF s3 = <<>> THEN <<NoIssueMsg>> ELSE s3

\* C10: for a non-empty text the suggestions are, in this order, the large-file
\* one iff it has more than 200 lines, the debug-print one iff it contains a
\* debug-print call, the trailing-whitespace one iff it ends in whitespace, and
\* the single no-issues message iff none of the three applies.
C10_SuggestionList ==
    suggestions # <<>> => suggestions = ExpectedSuggestions(text)

====
